---- MODULE Spec2Model ----
(***************************************************************************)
(* Model of the tile map of Mole-Man-2: the occupancy grid with its        *)
(* per-cell neighbour orientation (src/src/tilemap/mod.rs) and the sprite  *)
(* rule table with its derived coordinate index                            *)
(* (src/src/tilemap/sprite_config.rs, tile_requirements.rs,                *)
(* sprite_config_editor.rs).                                               *)
(***************************************************************************)
EXTENDS Integers, Sequences, FiniteSets, TLC

VARIABLES
    tiles,          \* Tilemap.tiles : [[Tile; HEIGHT]; WIDTH]
    dirty,          \* Tilemap.dirty
    instance_count, \* Tilemap.instance_count
    map_buffer,     \* TilemapData.tiles held by Tilemap.map_buffer
    orientations,   \* TilemapSpriteConfig.orientations (the rule table)
    coordinates,    \* TilemapSpriteConfig.coordinates.coordinates (the index)
    selected_tile,  \* TilemapSpriteConfigEditor.selected_tile
    edited,         \* history: the rule table changed since the last sync_coordinates
    fresh,          \* history: the index holds nothing built from an older rule table
    edits,          \* history: number of editor edits so far (capped by MaxEdits)
    lookup,         \* the last find_tile_index call: its argument and its result
    access,         \* the last tile(x, y) call, or the toggle(x, y) call that panicked
    sheet_call,     \* the last get_sheet_pos call: its argument and its result
    mutex,          \* who holds the Mutex<TilemapSpriteConfig>: "free", "editor" or "other"
    editor_pc,      \* the statement of run the editor's thread is at
    editor_o,       \* run's local copy o of the selected rule
    changed,        \* run's local flag changed
    other_pc,       \* the other holder: "out" of or "in" its critical section
    deadlocked,     \* the editor's thread locked the mutex while holding it
    pending,        \* history: toggles since the last apply_changes (capped by MaxPending)
    applied,        \* history: what the last apply_changes since the last toggle did
    grid_width,     \* TilemapSpriteConfig.grid_width
    grid_height,    \* TilemapSpriteConfig.grid_height
    tile_width,     \* TilemapSpriteConfig.tile_width
    tile_height,    \* TilemapSpriteConfig.tile_height
    file,           \* the rule file at the asset path: absent, or its content
    panicked,       \* the process was aborted by a panic
    saved,          \* history: the rule table save wrote, while the file is as written
    loaded,         \* history: the last new_or_load call since the file last changed
    coordinate,     \* a GridCoordinate handed to its Serialize impl
    key_string,     \* a map-key string: the output of Serialize, or the input of visit_str
    key_result,     \* the outcome of GridCoordinateVisitor::visit_str on key_string
    orient_call,    \* the last Orientation::orient call: its offsets and its result
    requirements,   \* a TileRequirements value
    from_orientation, \* history: the orientation requirements was converted from
    req_call        \* the last get_requirement / get_requirement_mut call

gridVars == <<tiles, dirty, instance_count, map_buffer, pending, applied, access, sheet_call>>
configVars == <<orientations, coordinates, selected_tile, edited, fresh, edits, lookup>>
loadVars == <<grid_width, grid_height, tile_width, tile_height, file, panicked, saved, loaded>>
\* loadVars without the panic flag
diskVars == <<grid_width, grid_height, tile_width, tile_height, file, saved, loaded>>
keyVars == <<coordinate, key_string, key_result>>
reqVars == <<orient_call, requirements, from_orientation, req_call>>

\* the lock of the shared rule table and the threads that take it
lockVars == <<mutex, editor_pc, editor_o, changed, other_pc, deadlocked>>

vars == <<gridVars, configVars, loadVars, keyVars, reqVars, lockVars>>

(***************************************************************************)
(* Bounds of the model.                                                    *)
(***************************************************************************)
\* the grid is WIDTH x HEIGHT cells (16 x 16 in the program)
WIDTH == 3
HEIGHT == 3
\* number of toggles explored between two apply_changes
MaxPending == 2
\* how many of the values a thread_rng draw can produce are explored per draw
MaxDraws == 1
\* the sprite sheet is GridWidth x GridHeight tiles
GridWidth == 2
GridHeight == 1
\* number of editor edits explored
MaxEdits == 2
\* largest x and y of the coordinates serialized as map keys
MaxCoord == 11
\* longest key string read from a file
MaxKeyLen == 5
\* largest |off_x| and |off_y| handed to Orientation::orient
MaxOffset == 3

(***************************************************************************)
(* Option<T>                                                               *)
(***************************************************************************)
None == [some |-> FALSE]
Some(v) == [some |-> TRUE, v |-> v]

\* Result<T, E> with a panic as the third way out of a call
Ok(v) == [kind |-> "Ok", v |-> v]
Err == [kind |-> "Err"]
Panic == [kind |-> "panic"]

(***************************************************************************)
(* Orientation: bitflags over u8                                           *)
(***************************************************************************)
NONE == 0
N == 1
E == 2
S == 4
W == 8
NW == 16
SW == 32
NE == 64
SE == 128

Directions == {N, E, S, W, NW, SW, NE, SE}

\* the flags set in the u8 value o
BitSet(o) == {b \in Directions : (o \div b) % 2 = 1}

\* the u8 value with exactly the flags of B set
FromBits(B) ==
    (IF N \in B THEN N ELSE 0) + (IF E \in B THEN E ELSE 0)
  + (IF S \in B THEN S ELSE 0) + (IF W \in B THEN W ELSE 0)
  + (IF NW \in B THEN NW ELSE 0) + (IF SW \in B THEN SW ELSE 0)
  + (IF NE \in B THEN NE ELSE 0) + (IF SE \in B THEN SE ELSE 0)

\* Orientation::all()
all == FromBits(Directions)

\* a & b on u8
BitAnd(a, b) ==
    N * (((a \div N) % 2) * ((b \div N) % 2)) + E * (((a \div E) % 2) * ((b \div E) % 2))
  + S * (((a \div S) % 2) * ((b \div S) % 2)) + W * (((a \div W) % 2) * ((b \div W) % 2))
  + NW * (((a \div NW) % 2) * ((b \div NW) % 2)) + SW * (((a \div SW) % 2) * ((b \div SW) % 2))
  + NE * (((a \div NE) % 2) * ((b \div NE) % 2)) + SE * (((a \div SE) % 2) * ((b \div SE) % 2))

\* Orientation::contains: (self & other) == other
contains(o, d) == BitAnd(o, d) = d

\* a | b
BitOr(a, b) == a + b - BitAnd(a, b)

\* o |= d for a single flag d
insert_flag(o, d) == IF (o \div d) % 2 = 1 THEN o ELSE o + d

\* orient with each diagonal offset read as its vertical direction
orient_diagonals_folded(off_x, off_y) ==
    CASE off_x = 1 /\ off_y = 0 -> Some(E)
      [] off_x = -1 /\ off_y = 0 -> Some(W)
      [] off_x = 0 /\ off_y = 1 -> Some(N)
      [] off_x = 0 /\ off_y = -1 -> Some(S)
      [] off_x = 1 /\ off_y = 1 -> Some(N)
      [] off_x = -1 /\ off_y = 1 -> Some(N)
      [] off_x = 1 /\ off_y = -1 -> Some(S)
      [] off_x = -1 /\ off_y = -1 -> Some(S)
      [] OTHER -> None

\* Orientation::orient
orient(off_x, off_y) ==
    CASE off_x = 1 /\ off_y = 0 -> Some(E)
      [] off_x = -1 /\ off_y = 0 -> Some(W)
      [] off_x = 0 /\ off_y = 1 -> Some(N)
      [] off_x = 0 /\ off_y = -1 -> Some(S)
      [] off_x = 1 /\ off_y = 1 -> Some(NE)
      [] off_x = -1 /\ off_y = 1 -> Some(NW)
      [] off_x = 1 /\ off_y = -1 -> Some(SE)
      [] off_x = -1 /\ off_y = -1 -> Some(SW)
      [] OTHER -> None

(***************************************************************************)
(* Tile and the grid helpers                                               *)
(***************************************************************************)
TileNone == [kind |-> "None"]
Filled(o) == [kind |-> "Filled", o |-> o]

IsFilled(t) == t.kind = "Filled"

\* offset_in_range(i, off_i, lo..hi)
offset_in_range(i, off_i, lo, hi) ==
    LET v == i + off_i IN v >= 0 /\ v >= lo /\ v < hi

\* offset: the coordinate moved by the offset, None when it leaves the grid
offset(x, y, off_x, off_y) ==
    IF offset_in_range(x, off_x, 0, WIDTH) /\ offset_in_range(y, off_y, 0, HEIGHT)
    THEN Some(<<x + off_x, y + off_y>>)
    ELSE None

\* Tilemap::get_tile_offset
get_tile_offset(t, x, y, off_x, off_y) ==
    LET p == offset(x, y, off_x, off_y)
    IN IF p.some THEN Some(t[p.v[1]][p.v[2]]) ELSE None

\* tile_filled answering as Tilemap::tile_exists: the position is in the grid
tile_exists(t, x, y, off_x, off_y) == get_tile_offset(t, x, y, off_x, off_y).some

\* tile_filled as "the neighbour is an in-grid Filled tile"
tile_filled_in_grid_only(t, x, y, off_x, off_y) ==
    LET c == get_tile_offset(t, x, y, off_x, off_y)
    IN c.some /\ IsFilled(c.v)

\* Tilemap::tile_filled: false only for an in-grid Tile::None
tile_filled(t, x, y, off_x, off_y) ==
    LET c == get_tile_offset(t, x, y, off_x, off_y)
    IN IF c.some /\ c.v = TileNone THEN FALSE ELSE TRUE

\* update_orientation_offset without the test of the SW neighbour
update_orientation_offset_no_sw(t, x, y, off_x, off_y) ==
    LET o0 == NONE
        o1 == IF tile_filled(t, x, y, off_x + 1, off_y) THEN insert_flag(o0, E) ELSE o0
        o2 == IF tile_filled(t, x, y, off_x - 1, off_y) THEN insert_flag(o1, W) ELSE o1
        o3 == IF tile_filled(t, x, y, off_x, off_y + 1) THEN insert_flag(o2, N) ELSE o2
        o4 == IF tile_filled(t, x, y, off_x, off_y - 1) THEN insert_flag(o3, S) ELSE o3
        o5 == IF tile_filled(t, x, y, off_x + 1, off_y - 1) THEN insert_flag(o4, SE) ELSE o4
        o7 == IF tile_filled(t, x, y, off_x + 1, off_y + 1) THEN insert_flag(o5, NE) ELSE o5
        orientation ==
              IF tile_filled(t, x, y, off_x - 1, off_y + 1) THEN insert_flag(o7, NW) ELSE o7
        c == get_tile_offset(t, x, y, off_x, off_y)
    IN IF c.some /\ IsFilled(c.v)
       THEN [t EXCEPT ![x + off_x][y + off_y] = Filled(orientation)]
       ELSE t

\* update_orientation_offset writing the orientation to the cell whatever it holds
update_orientation_offset_any_tile(t, x, y, off_x, off_y) ==
    LET o0 == NONE
        o1 == IF tile_filled(t, x, y, off_x + 1, off_y) THEN insert_flag(o0, E) ELSE o0
        o2 == IF tile_filled(t, x, y, off_x - 1, off_y) THEN insert_flag(o1, W) ELSE o1
        o3 == IF tile_filled(t, x, y, off_x, off_y + 1) THEN insert_flag(o2, N) ELSE o2
        o4 == IF tile_filled(t, x, y, off_x, off_y - 1) THEN insert_flag(o3, S) ELSE o3
        o5 == IF tile_filled(t, x, y, off_x + 1, off_y - 1) THEN insert_flag(o4, SE) ELSE o4
        o6 == IF tile_filled(t, x, y, off_x - 1, off_y - 1) THEN insert_flag(o5, SW) ELSE o5
        o7 == IF tile_filled(t, x, y, off_x + 1, off_y + 1) THEN insert_flag(o6, NE) ELSE o6
        orientation ==
              IF tile_filled(t, x, y, off_x - 1, off_y + 1) THEN insert_flag(o7, NW) ELSE o7
        c == get_tile_offset(t, x, y, off_x, off_y)
    IN IF c.some
       THEN [t EXCEPT ![x + off_x][y + off_y] = Filled(orientation)]
       ELSE t

\* Tilemap::update_orientation_offset
update_orientation_offset(t, x, y, off_x, off_y) ==
    LET o0 == NONE
        o1 == IF tile_filled(t, x, y, off_x + 1, off_y) THEN insert_flag(o0, E) ELSE o0
        o2 == IF tile_filled(t, x, y, off_x - 1, off_y) THEN insert_flag(o1, W) ELSE o1
        o3 == IF tile_filled(t, x, y, off_x, off_y + 1) THEN insert_flag(o2, N) ELSE o2
        o4 == IF tile_filled(t, x, y, off_x, off_y - 1) THEN insert_flag(o3, S) ELSE o3
        o5 == IF tile_filled(t, x, y, off_x + 1, off_y - 1) THEN insert_flag(o4, SE) ELSE o4
        o6 == IF tile_filled(t, x, y, off_x - 1, off_y - 1) THEN insert_flag(o5, SW) ELSE o5
        o7 == IF tile_filled(t, x, y, off_x + 1, off_y + 1) THEN insert_flag(o6, NE) ELSE o6
        orientation ==
              IF tile_filled(t, x, y, off_x - 1, off_y + 1) THEN insert_flag(o7, NW) ELSE o7
        c == get_tile_offset(t, x, y, off_x, off_y)
    IN IF c.some /\ IsFilled(c.v)
       THEN [t EXCEPT ![x + off_x][y + off_y] = Filled(orientation)]
       ELSE t

\* a - b on Orientation: the flags of a that are not in b
BitSub(a, b) == a - BitAnd(a, b)

\* Tilemap::get_orientation_offset_mut: the orientation of the Filled tile at the offset
get_orientation_offset_mut(t, x, y, off_x, off_y) ==
    LET c == get_tile_offset(t, x, y, off_x, off_y)
    IN IF c.some /\ IsFilled(c.v) THEN Some(c.v.o) ELSE None

\* Tilemap::remove_orientation, the grid it leaves
remove_orientation(t, x, y, off_x, off_y, dif) ==
    LET o == get_orientation_offset_mut(t, x, y, off_x, off_y)
    IN IF o.some
       THEN [t EXCEPT ![x + off_x][y + off_y] = Filled(BitSub(o.v, dif))]
       ELSE t

\* add_orientation returning dif without inserting it
add_orientation_reports_only(t, x, y, off_x, off_y, dif) ==
    LET o == get_orientation_offset_mut(t, x, y, off_x, off_y)
    IN IF o.some THEN [tiles |-> t, ret |-> dif] ELSE [tiles |-> t, ret |-> NONE]

\* Tilemap::add_orientation: the grid it leaves and the value it returns
add_orientation(t, x, y, off_x, off_y, dif) ==
    LET o == get_orientation_offset_mut(t, x, y, off_x, off_y)
    IN IF o.some
       THEN [tiles |-> [t EXCEPT ![x + off_x][y + off_y] = Filled(BitOr(o.v, dif))],
             ret |-> dif]
       ELSE [tiles |-> t, ret |-> NONE]

\* the loops of toggle over the exclusive ranges -1..1
ToggleOffsetsExclusive == << <<-1, -1>>, <<-1, 0>>, <<0, -1>>, <<0, 0>> >>

\* the offsets visited by the two loops of toggle, off_x outer, off_y inner
ToggleOffsets ==
    << <<-1, -1>>, <<-1, 0>>, <<-1, 1>>,
       <<0, -1>>,  <<0, 0>>,  <<0, 1>>,
       <<1, -1>>,  <<1, 0>>,  <<1, 1>> >>

RECURSIVE UpdateBlock(_, _, _, _)
UpdateBlock(t, x, y, i) ==
    IF i > Len(ToggleOffsets) THEN t
    ELSE UpdateBlock(
            update_orientation_offset(t, x, y, ToggleOffsets[i][1], ToggleOffsets[i][2]),
            x, y, i + 1)

\* toggle flipping the cell without revisiting the orientations of the block
toggle_flip_only(t, x, y) ==
    [t EXCEPT ![x][y] = IF IsFilled(t[x][y]) THEN TileNone ELSE Filled(NONE)]

\* Tilemap::toggle, the grid it leaves
toggle(t, x, y) ==
    LET flipped == [t EXCEPT ![x][y] =
                        IF IsFilled(t[x][y]) THEN TileNone ELSE Filled(NONE)]
    IN UpdateBlock(flipped, x, y, 1)

(***************************************************************************)
(* The instance list: get_sheet_pos and apply_changes                      *)
(***************************************************************************)
\* stride of grid_pos in apply_changes: grid_pos = y * 16 + x
GridStride == 16
\* stride of the sheet position in get_sheet_pos: x + y * 16
SheetStride == 16

\* rng.gen_range(lo..=hi): every value the generator can return
gen_range(lo, hi) == lo..hi

\* get_sheet_pos taking the top edge only when the NW neighbour is filled as well
get_sheet_pos_reads_nw(o) ==
    LET n == contains(o, N)
        e == contains(o, E)
        s == contains(o, S)
        w == contains(o, W)
        nw == contains(o, NW)
        xy == CASE ~n /\ e /\ s /\ w /\ nw -> {<<x, 0>> : x \in gen_range(1, 4)}
                [] n /\ ~e /\ s /\ w -> {<<5, y>> : y \in gen_range(1, 4)}
                [] n /\ e /\ ~s /\ w -> {<<x, 5>> : x \in gen_range(1, 4)}
                [] n /\ e /\ s /\ ~w -> {<<0, y>> : y \in gen_range(1, 4)}
                [] n /\ ~e /\ ~s /\ w -> {<<5, 5>>}
                [] ~n /\ e /\ s /\ ~w -> {<<0, 0>>}
                [] ~n /\ ~e /\ s /\ w -> {<<5, 0>>}
                [] n /\ e /\ ~s /\ ~w -> {<<0, 5>>}
                [] OTHER -> gen_range(1, 4) \X gen_range(1, 4)
    IN {p[1] + p[2] * SheetStride : p \in xy}

\* Tilemap::get_sheet_pos: the sheet positions the call can return for o; m is
\* the tuple the match is taken on (the diagonals are matched by _ in every arm)
get_sheet_pos(o) ==
    UNION {LET n == m[1]
               e == m[2]
               s == m[3]
               w == m[4]
               xy == CASE ~n /\ e /\ s /\ w -> {<<x, 0>> : x \in gen_range(1, 4)}
                       [] n /\ ~e /\ s /\ w -> {<<5, y>> : y \in gen_range(1, 4)}
                       [] n /\ e /\ ~s /\ w -> {<<x, 5>> : x \in gen_range(1, 4)}
                       [] n /\ e /\ s /\ ~w -> {<<0, y>> : y \in gen_range(1, 4)}
                       [] n /\ ~e /\ ~s /\ w -> {<<5, 5>>}
                       [] ~n /\ e /\ s /\ ~w -> {<<0, 0>>}
                       [] ~n /\ ~e /\ s /\ w -> {<<5, 0>>}
                       [] n /\ e /\ ~s /\ ~w -> {<<0, 5>>}
                       [] OTHER -> gen_range(1, 4) \X gen_range(1, 4)
           IN {p[1] + p[2] * SheetStride : p \in xy} :
           m \in {<<contains(o, N), contains(o, E), contains(o, S), contains(o, W)>>}}

\* the MaxDraws smallest values of V: the draws of one call that are explored
RECURSIVE Smallest(_, _)
Smallest(V, n) ==
    IF n = 0 \/ V = {} THEN {}
    ELSE UNION {{least} \cup Smallest(V \ {least}, n - 1) :
                   least \in {CHOOSE v \in V : \A u \in V : v <= u}}

Draws(V) == UNION {Smallest(vs, MaxDraws) : vs \in {V}}

ZeroTileData == [sheet_pos |-> 0, grid_pos |-> 0]

\* the cells visited with y in the outer loop and x in the inner loop
CellOrderRowMajor == [k \in 1..(WIDTH * HEIGHT) |-> <<(k - 1) % WIDTH, (k - 1) \div WIDTH>>]

\* the cells in the order of the loops of apply_changes: x outer, y inner
CellOrder == [k \in 1..(WIDTH * HEIGHT) |-> <<(k - 1) \div HEIGHT, (k - 1) % HEIGHT>>]

\* apply_changes resolving through find_tile_index and skipping unmatched cells
RECURSIVE InstancesOfMatched(_, _)
InstancesOfMatched(t, k) ==
    IF k = 0 THEN {<<>>}
    ELSE LET prev == InstancesOfMatched(t, k - 1)
             x == CellOrder[k][1]
             y == CellOrder[k][2]
         IN IF IsFilled(t[x][y]) /\ t[x][y].o \in DOMAIN coordinates
            THEN {Append(l, [sheet_pos |-> c[1] + c[2] * SheetStride,
                             grid_pos |-> y * GridStride + x]) :
                     l \in prev, c \in coordinates[t[x][y].o]}
            ELSE prev

\* the instance lists apply_changes can build from the first k cells of CellOrder
RECURSIVE Instances(_, _)
Instances(t, k) ==
    IF k = 0 THEN {<<>>}
    ELSE LET prev == Instances(t, k - 1)
             x == CellOrder[k][1]
             y == CellOrder[k][2]
         IN IF IsFilled(t[x][y])
            THEN {Append(l, [sheet_pos |-> sp, grid_pos |-> y * GridStride + x]) :
                     l \in prev, sp \in Draws(get_sheet_pos(t[x][y].o))}
            ELSE prev

\* the array written to the buffer: the instances, then untouched zero entries
PadTiles(l) == [k \in 1..(WIDTH * HEIGHT) |-> IF k <= Len(l) THEN l[k] ELSE ZeroTileData]

(***************************************************************************)
(* TileRequirements: dirs : [Option<bool>; 8]                              *)
(***************************************************************************)
DirIndices == 0..7

\* the position of a direction in dirs, as the accessors n() .. sw() fix it
DirOfIndex == [i \in DirIndices |->
    CASE i = 0 -> N [] i = 1 -> S [] i = 2 -> E [] i = 3 -> W
      [] i = 4 -> NE [] i = 5 -> NW [] i = 6 -> SE [] i = 7 -> SW]

\* the match of get_requirement / get_requirement_mut: the entry of a direction
requirement_index(o) ==
    CASE o = N -> Some(0) [] o = S -> Some(1) [] o = E -> Some(2) [] o = W -> Some(3)
      [] o = NE -> Some(4) [] o = NW -> Some(5) [] o = SE -> Some(6) [] o = SW -> Some(7)
      [] OTHER -> None

\* get_requirement with the entry of N for a token that is no direction
get_requirement_defaulting(r, o) ==
    LET i == requirement_index(o) IN IF i.some THEN Some(r[i.v]) ELSE Some(r[0])

\* TileRequirements::get_requirement
get_requirement(r, o) ==
    LET i == requirement_index(o) IN IF i.some THEN Some(r[i.v]) ELSE None

\* TileRequirements::get_requirement_mut: the position in dirs of the entry
\* the returned reference points to
get_requirement_mut(r, o) ==
    LET i == requirement_index(o) IN IF i.some THEN Ok(i.v) ELSE Err

\* From<Orientation> with the array written in the order N, E, S, W, ...
requirements_from_clockwise(o) ==
    [i \in DirIndices |->
        CASE i = 0 -> Some(contains(o, N)) [] i = 1 -> Some(contains(o, E))
          [] i = 2 -> Some(contains(o, S)) [] i = 3 -> Some(contains(o, W))
          [] i = 4 -> Some(contains(o, NE)) [] i = 5 -> Some(contains(o, NW))
          [] i = 6 -> Some(contains(o, SE)) [] i = 7 -> Some(contains(o, SW))]

\* impl From<Orientation> for TileRequirements
requirements_from(o) ==
    [i \in DirIndices |->
        CASE i = 0 -> Some(contains(o, N)) [] i = 1 -> Some(contains(o, S))
          [] i = 2 -> Some(contains(o, E)) [] i = 3 -> Some(contains(o, W))
          [] i = 4 -> Some(contains(o, NE)) [] i = 5 -> Some(contains(o, NW))
          [] i = 6 -> Some(contains(o, SE)) [] i = 7 -> Some(contains(o, SW))]

\* TileRequirements::default(): every direction None
DefaultRequirements == [i \in DirIndices |-> None]

\* the conversion c.into() of sync_coordinates, TileRequirements -> Orientation:
\* the flags of the directions required present
orientation_from(c) == FromBits({DirOfIndex[i] : i \in {j \in DirIndices : c[j] = Some(TRUE)}})

(***************************************************************************)
(* CoordinateSet and sync_coordinates                                      *)
(***************************************************************************)
\* HashMap::default()
EmptyMap == [k \in {} |-> {}]

\* insert replacing the set of a key that is present
CoordinateSet_insert_overwrite(cs, k, v) ==
    IF k \in DOMAIN cs
    THEN [cs EXCEPT ![k] = {v}]
    ELSE cs @@ (k :> {v})

\* insert taking the coordinate out of the set when it is already there
CoordinateSet_insert_toggling(cs, k, v) ==
    IF k \in DOMAIN cs
    THEN [cs EXCEPT ![k] = IF v \in @ THEN @ \ {v} ELSE @ \cup {v}]
    ELSE cs @@ (k :> {v})

\* CoordinateSet::insert
CoordinateSet_insert(cs, k, v) ==
    IF k \in DOMAIN cs
    THEN [cs EXCEPT ![k] = @ \cup {v}]
    ELSE cs @@ (k :> {v})

\* CoordinateSet::get: the values the call can return (a random member, or None)
CoordinateSet_get(cs, index) ==
    IF index \in DOMAIN cs
    THEN IF cs[index] # {} THEN {Some(c) : c \in cs[index]} ELSE {None}
    ELSE {None}

\* TilemapSpriteConfig::find_tile_index
find_tile_index(cs, o) == CoordinateSet_get(cs, o)

\* the inner loop pushing the Some(true) copy only
DoubleTrueOnly(coords, i) ==
    [j \in 1..Len(coords) |-> [coords[j] EXCEPT ![i] = Some(TRUE)]]

\* one pass of the inner loop of sync_coordinates: every requirement of coords
\* twice, dirs[i] forced Some(true) then Some(false)
Double(coords, i) ==
    [j \in 1..(2 * Len(coords)) |->
        [coords[(j + 1) \div 2] EXCEPT ![i] = Some(j % 2 = 1)]]

\* the loop as "for i in 0..7": the last direction is never expanded
RECURSIVE ExpandSeven(_, _, _)
ExpandSeven(v, coords, i) ==
    IF i > 6 THEN coords
    ELSE ExpandSeven(v, IF ~v[i].some THEN Double(coords, i) ELSE coords, i + 1)

\* the loop "for i in 0..8" of sync_coordinates over the rule v, from index i on
RECURSIVE Expand(_, _, _)
Expand(v, coords, i) ==
    IF i > 7 THEN coords
    ELSE Expand(v, IF ~v[i].some THEN Double(coords, i) ELSE coords, i + 1)

\* the loop "for c in coords" of sync_coordinates for the rule at k: one
\* CoordinateSet::insert per expanded requirement. An insert changes the entry
\* of its own key only and repeating it changes nothing, so the loop leaves,
\* under every key it visits, what a single insert leaves there
InsertAll(cs, coords, k) ==
    LET keys == {orientation_from(coords[j]) : j \in 1..Len(coords)}
    IN [o \in (DOMAIN cs) \cup keys |->
           IF o \in keys THEN CoordinateSet_insert(cs, o, k)[o] ELSE cs[o]]

\* the outer loop of sync_coordinates over the rules not yet visited
RECURSIVE SyncRules(_, _, _)
SyncRules(table, cs, todo) ==
    IF todo = {} THEN cs
    ELSE LET k == CHOOSE c \in todo : TRUE
         IN SyncRules(table,
                      InsertAll(cs, Expand(table[k], <<table[k]>>, 0), k),
                      todo \ {k})

\* TilemapSpriteConfig::sync_coordinates: the index it leaves
sync_coordinates(table, cs) == SyncRules(table, cs, DOMAIN table)

(***************************************************************************)
(* GridCoordinate and its map-key string                                   *)
(***************************************************************************)
\* the characters '0' .. '9', the digit d at position d + 1
DigitChars == <<"0", "1", "2", "3", "4", "5", "6", "7", "8", "9">>

\* format!("{}", n) of a usize: its decimal digits, most significant first
RECURSIVE format_usize(_)
format_usize(n) ==
    IF n < 10 THEN <<DigitChars[n + 1]>>
    ELSE format_usize(n \div 10) \o <<DigitChars[(n % 10) + 1]>>

\* Serialize for GridCoordinate written as "{y}:{x}"
GridCoordinate_serialize_swapped(c) == format_usize(c[2]) \o <<":">> \o format_usize(c[1])

\* Serialize for GridCoordinate: format!("{}:{}", self.x, self.y)
GridCoordinate_serialize(c) == format_usize(c[1]) \o <<":">> \o format_usize(c[2])

\* s.split(":"): the parts between the colons, one more than there are colons
RECURSIVE split(_)
split(s) ==
    IF \A i \in 1..Len(s) : s[i] # ":" THEN <<s>>
    ELSE LET i == CHOOSE j \in 1..Len(s) : s[j] = ":" /\ \A k \in 1..(j - 1) : s[k] # ":"
         IN <<SubSeq(s, 1, i - 1)>> \o split(SubSeq(s, i + 1, Len(s)))

DigitValue(ch) == (CHOOSE d \in 1..10 : DigitChars[d] = ch) - 1

IsDigit(ch) == \E d \in 1..10 : DigitChars[d] = ch

RECURSIVE DigitsValue(_)
DigitsValue(ds) ==
    IF ds = <<>> THEN 0
    ELSE DigitsValue(SubSeq(ds, 1, Len(ds) - 1)) * 10 + DigitValue(ds[Len(ds)])

\* usize::from_str: an optional '+', then one or more decimal digits; the
\* strings of the model are too short to exceed usize::MAX
usize_from_str(part) ==
    LET ds == IF part # <<>> /\ part[1] = "+" THEN Tail(part) ELSE part
    IN IF ds # <<>> /\ \A i \in 1..Len(ds) : IsDigit(ds[i])
       THEN Some(DigitsValue(ds))
       ELSE None

\* GridCoordinateVisitor::visit_str: the first two parts of the split are
\* parsed, nums.next().unwrap() panics when the second part is missing, and
\* the parts after the second are never looked at
visit_str(s) ==
    LET nums == split(s)
        x == usize_from_str(nums[1])
    IN IF x.some
       THEN IF Len(nums) < 2 THEN Panic
            ELSE LET y == usize_from_str(nums[2])
                 IN IF y.some THEN Ok(<<x.v, y.v>>) ELSE Err
       ELSE Err

(***************************************************************************)
(* The rule file: serde_json::to_string and serde_json::from_reader        *)
(***************************************************************************)
\* Option<bool> as a JSON value
json_of_option(b) == IF ~b.some THEN "null" ELSE IF b.v THEN "true" ELSE "false"

\* a JSON value read as Option<bool>: None of the outer Option is a type error
option_of_json(tok) ==
    CASE tok = "null" -> Some(None)
      [] tok = "true" -> Some(Some(TRUE))
      [] tok = "false" -> Some(Some(FALSE))
      [] OTHER -> None

\* TileRequirements as JSON with the array written last entry first
TileRequirements_serialize_reversed(r) == [i \in 1..8 |-> json_of_option(r[8 - i])]

\* TileRequirements as JSON: the array of its 8 entries, dirs[0] first
TileRequirements_serialize(r) == [i \in 1..8 |-> json_of_option(r[i - 1])]

\* a JSON array read as [Option<bool>; 8]
TileRequirements_deserialize(a) ==
    IF Len(a) = 8 /\ \A i \in 1..8 : option_of_json(a[i]).some
    THEN Ok([i \in DirIndices |-> option_of_json(a[i + 1]).v])
    ELSE Err

\* the orders a HashMap of the given keys can be iterated in
Orders(K) == {q \in [1..Cardinality(K) -> K] : \A c \in K : \E i \in DOMAIN q : q[i] = c}

\* a file that holds no JSON object of the shape of TilemapSpriteConfig
NotJson == [kind |-> "text"]

\* serde_json::to_string(self): the fields but coordinates (#[serde(skip)]),
\* the rules in some iteration order of the HashMap
to_string(table, gw, gh, tw, th) ==
    {[kind |-> "json",
      orientations |-> [i \in DOMAIN q |->
                          <<GridCoordinate_serialize(q[i]), TileRequirements_serialize(table[q[i]])>>],
      grid_width |-> gw, grid_height |-> gh, tile_width |-> tw, tile_height |-> th]
        : q \in Orders(DOMAIN table)}

\* HashMap<GridCoordinate, TileRequirements> read from the entries of a JSON
\* object in their order: the first key or value that fails ends the read, a
\* key read twice keeps its last value
RECURSIVE deserialize_map(_, _, _)
deserialize_map(entries, i, table) ==
    IF i > Len(entries) THEN Ok(table)
    ELSE LET k == visit_str(entries[i][1])
             v == TileRequirements_deserialize(entries[i][2])
         IN IF k.kind # "Ok" THEN k
            ELSE IF v.kind # "Ok" THEN v
            ELSE deserialize_map(entries, i + 1,
                    IF k.v \in DOMAIN table
                    THEN [table EXCEPT ![k.v] = v.v]
                    ELSE table @@ (k.v :> v.v))

\* serde_json::from_reader::<TilemapSpriteConfig>; coordinates is skipped and
\* takes CoordinateSet::default()
from_reader(doc) ==
    IF doc.kind # "json" THEN Err
    ELSE LET m == deserialize_map(doc.orientations, 1, <<>>)
         IN IF m.kind # "Ok" THEN m
            ELSE Ok([orientations |-> m.v, coordinates |-> EmptyMap,
                     grid_width |-> doc.grid_width, grid_height |-> doc.grid_height,
                     tile_width |-> doc.tile_width, tile_height |-> doc.tile_height])

\* tile_width and tile_height of TilemapSpriteConfig::new
DefaultTileWidth == 8
DefaultTileHeight == 8

\* TilemapSpriteConfig::new with the two sizes of the sheet exchanged
TilemapSpriteConfig_new_swapped(gw, gh) ==
    [orientations |-> <<>>, coordinates |-> EmptyMap,
     grid_width |-> gh, grid_height |-> gw,
     tile_width |-> DefaultTileWidth, tile_height |-> DefaultTileHeight]

\* TilemapSpriteConfig::new
TilemapSpriteConfig_new(gw, gh) ==
    [orientations |-> <<>>, coordinates |-> EmptyMap,
     grid_width |-> gw, grid_height |-> gh,
     tile_width |-> DefaultTileWidth, tile_height |-> DefaultTileHeight]

\* new_or_load up to sync_coordinates: the config, or the panic of unwrap()
open_or_new(f, gw, gh) ==
    IF f.some
    THEN LET r == from_reader(f.v) IN IF r.kind = "Ok" THEN r ELSE Panic
    ELSE Ok(TilemapSpriteConfig_new(gw, gh))

(***************************************************************************)
(* Inputs: the rule tables a tileset file can hold                         *)
(***************************************************************************)
\* the coordinates of the sprite sheet, grid_width x grid_height
SheetCoords == {<<x, y>> : x \in 0..(GridWidth - 1), y \in 0..(GridHeight - 1)}

\* rules of the kinds a tileset holds: fully concrete, one wildcard, two
\* wildcards, all wildcards
AllPresent == [i \in DirIndices |-> Some(TRUE)]
OnlySouthFree == [i \in DirIndices |-> IF i = 1 THEN None ELSE Some(FALSE)]
EastWestFree == [i \in DirIndices |->
    IF i \in {2, 3} THEN None ELSE IF i \in {0, 1} THEN Some(TRUE) ELSE Some(FALSE)]
SeedRules == {AllPresent, OnlySouthFree, EastWestFree, DefaultRequirements}

\* the tileset of tests::sync_coordinates: a rule for the orientation all, and
\* rules that leave every other orientation but NONE and S unmatched
TestTable == [c \in SheetCoords |-> IF c = <<0, 0>> THEN AllPresent ELSE OnlySouthFree]

\* a tileset whose rules overlap: a rule free in E and W only, under rules
\* that match every orientation
OverlapTable ==
    [c \in SheetCoords |-> IF c = <<0, 0>> THEN EastWestFree ELSE DefaultRequirements]

\* the rule tables new_or_load can return: none (no file), one seed rule at
\* one sheet coordinate, the test's table, or the overlapping one
InitTables ==
    {[c \in {} |-> DefaultRequirements]}
      \cup {[c \in {k} |-> r] : k \in SheetCoords, r \in SeedRules}
      \cup {TestTable, OverlapTable}

\* the orientations find_tile_index is called with
ProbeOrientations == {NONE, N, all}

(***************************************************************************)
(* Inputs: the rule files found at the asset path                          *)
(***************************************************************************)
\* strings of characters, for the keys of rule files written by other hands
ExtraPartKey == <<"1", ":", "0", ":", "5">>
NoColonKey == <<"1", "0">>
NotNumericKey == <<"a", ":", "0">>

\* a JSON rule file with one rule under the given key
OneRuleFile(key, r) ==
    [kind |-> "json",
     orientations |-> << <<key, TileRequirements_serialize(r)>> >>,
     grid_width |-> GridWidth + 2, grid_height |-> GridHeight + 2,
     tile_width |-> 2 * DefaultTileWidth, tile_height |-> 2 * DefaultTileHeight]

\* files not written by save: no JSON, keys no Serialize call produces, and
\* a rule file of another sheet
ForeignFiles ==
    {NotJson,
     OneRuleFile(ExtraPartKey, AllPresent),
     OneRuleFile(NoColonKey, AllPresent),
     OneRuleFile(NotNumericKey, AllPresent),
     OneRuleFile(GridCoordinate_serialize(<<GridWidth, GridHeight>>), OnlySouthFree)}

\* the (grid_width, grid_height) arguments of new_or_load
LoadGeometries == {<<GridWidth, GridHeight>>, <<GridWidth + 1, GridHeight + 1>>}

(***************************************************************************)
(* Inputs: coordinates to serialize and key strings to deserialize         *)
(***************************************************************************)
\* the coordinates handed to Serialize: 0 .. MaxCoord on both axes
KeyCoords == (0..MaxCoord) \X (0..MaxCoord)

\* the characters of the key strings: digits, the separator, a sign, a letter
KeyAlphabet == {"0", "1", ":", "+", "a"}

\* every string over KeyAlphabet of at most MaxKeyLen characters
KeyStrings == UNION {[1..n -> KeyAlphabet] : n \in 0..MaxKeyLen}

(***************************************************************************)
(* State after construction                                                *)
(***************************************************************************)
\* Tilemap::new before its toggles: every cell Filled(all), dirty, no instance
InitTilemap ==
    /\ tiles = [x \in 0..(WIDTH - 1) |-> [y \in 0..(HEIGHT - 1) |-> Filled(all)]]
    /\ dirty = TRUE
    /\ instance_count = 0
    /\ map_buffer = [k \in 1..(WIDTH * HEIGHT) |-> ZeroTileData]
    /\ pending = 0
    /\ applied = "none"
    /\ access = None
    /\ sheet_call = None

\* TilemapSpriteConfig::new_or_load with the table given, and the editor on it
InitSpriteConfig(table) ==
    /\ orientations = table
    /\ coordinates = sync_coordinates(table, EmptyMap)
    /\ selected_tile = <<0, 0>>
    /\ edited = FALSE
    /\ fresh = TRUE
    /\ edits = 0
    /\ lookup = None

\* the geometry of a config made for a GridWidth x GridHeight sheet, no rule
\* file written yet, no new_or_load or save call made
InitGeometry ==
    /\ grid_width = GridWidth
    /\ grid_height = GridHeight
    /\ tile_width = DefaultTileWidth
    /\ tile_height = DefaultTileHeight

InitDisk ==
    /\ file = None
    /\ panicked = FALSE
    /\ saved = None
    /\ loaded = None

\* no key serialized or deserialized yet
InitKeys ==
    /\ coordinate = None
    /\ key_string = <<>>
    /\ key_result = None

\* TileRequirements::default, no orient or get_requirement call made yet
\* no frame of the editor has begun and nobody holds the mutex
InitLock ==
    /\ mutex = "free"
    /\ editor_pc = "idle"
    /\ editor_o = None
    /\ changed = FALSE
    /\ other_pc = "out"
    /\ deadlocked = FALSE

InitRequirements ==
    /\ orient_call = None
    /\ requirements = DefaultRequirements
    /\ from_orientation = None
    /\ req_call = None

\* the tilemap over the tileset of tests::sync_coordinates
Init ==
    /\ InitTilemap
    /\ InitSpriteConfig(TestTable)
    /\ InitGeometry /\ InitDisk /\ InitKeys /\ InitRequirements /\ InitLock

InitConfig ==
    /\ InitTilemap
    /\ \E table \in InitTables : InitSpriteConfig(table)
    /\ InitGeometry /\ InitDisk /\ InitKeys /\ InitRequirements /\ InitLock

(***************************************************************************)
(* Operations of the tilemap                                               *)
(***************************************************************************)
\* toggle leaving the dirty flag as it is
ToggleKeepsDirty(x, y) ==
    /\ pending < MaxPending
    /\ tiles' = toggle(tiles, x, y)
    /\ pending' = pending + 1
    /\ applied' = "none"
    /\ UNCHANGED <<dirty, instance_count, map_buffer, access, sheet_call>>
    /\ UNCHANGED <<configVars, loadVars, keyVars, reqVars, lockVars>>

\* toggle with out-of-range coordinates clamped to the last column and row
ToggleClamped(x, y) ==
    /\ ~panicked
    /\ pending < MaxPending
    /\ \E cx \in {IF x < WIDTH THEN x ELSE WIDTH - 1}, cy \in {IF y < HEIGHT THEN y ELSE HEIGHT - 1} :
           tiles' = toggle(tiles, cx, cy)
    /\ dirty' = TRUE
    /\ pending' = pending + 1
    /\ applied' = "none"
    /\ UNCHANGED <<instance_count, map_buffer, access, panicked, sheet_call>>
    /\ UNCHANGED <<configVars, diskVars, keyVars, reqVars, lockVars>>

\* Tilemap::toggle(x, y)
Toggle(x, y) ==
    /\ ~panicked
    /\ IF x < WIDTH /\ y < HEIGHT
       THEN /\ pending < MaxPending
            /\ tiles' = toggle(tiles, x, y)
            /\ dirty' = TRUE
            /\ pending' = pending + 1
            /\ applied' = "none"
            /\ UNCHANGED <<instance_count, map_buffer, access, panicked>>
       ELSE /\ panicked' = TRUE
            /\ access' = Some([fn |-> "toggle", x |-> x, y |-> y, result |-> Panic])
            /\ UNCHANGED <<tiles, dirty, instance_count, map_buffer, pending, applied>>
    /\ UNCHANGED sheet_call
    /\ UNCHANGED <<configVars, diskVars, keyVars, reqVars, lockVars>>

\* Tilemap::tile(x, y)
Tile(x, y) ==
    /\ ~panicked
    /\ IF x < WIDTH /\ y < HEIGHT
       THEN /\ access' = Some([fn |-> "tile", x |-> x, y |-> y, result |-> Ok(tiles[x][y])])
            /\ UNCHANGED panicked
       ELSE /\ access' = Some([fn |-> "tile", x |-> x, y |-> y, result |-> Panic])
            /\ panicked' = TRUE
    /\ UNCHANGED <<tiles, dirty, instance_count, map_buffer, pending, applied, sheet_call>>
    /\ UNCHANGED <<configVars, diskVars, keyVars, reqVars, lockVars>>

\* get_sheet_pos has not been called on its own yet
NoSheetCallYet == ~sheet_call.some

\* Tilemap::get_sheet_pos(o), one call and the position it returned
GetSheetPos(o) ==
    /\ ~panicked
    /\ NoSheetCallYet
    /\ \E r \in get_sheet_pos(o) : sheet_call' = Some([o |-> o, result |-> r])
    /\ UNCHANGED <<tiles, dirty, instance_count, map_buffer, pending, applied, access>>
    /\ UNCHANGED <<configVars, loadVars, keyVars, reqVars, lockVars>>

\* apply_changes dropping the instances when the grid is not dirty
ApplyChangesClearsWhenClean ==
    /\ IF dirty
       THEN \E l \in Instances(tiles, WIDTH * HEIGHT) :
               /\ map_buffer' = PadTiles(l)
               /\ instance_count' = Len(l)
       ELSE /\ instance_count' = 0
            /\ UNCHANGED map_buffer
    /\ dirty' = FALSE
    /\ pending' = 0
    /\ applied' = IF dirty THEN "rebuilt" ELSE "noop"
    /\ UNCHANGED <<tiles, access, sheet_call>>
    /\ UNCHANGED <<configVars, loadVars, keyVars, reqVars, lockVars>>

\* apply_changes rebuilding the buffer and leaving the dirty flag as it is
ApplyChangesLeavesDirty ==
    /\ IF dirty
       THEN \E l \in Instances(tiles, WIDTH * HEIGHT) :
               /\ map_buffer' = PadTiles(l)
               /\ instance_count' = Len(l)
       ELSE UNCHANGED <<map_buffer, instance_count>>
    /\ pending' = 0
    /\ applied' = IF dirty THEN "rebuilt" ELSE "noop"
    /\ UNCHANGED <<tiles, dirty, access, sheet_call>>
    /\ UNCHANGED <<configVars, loadVars, keyVars, reqVars, lockVars>>

\* Tilemap::apply_changes
ApplyChanges ==
    /\ dirty' = FALSE
    /\ pending' = 0
    /\ applied' = IF dirty THEN "rebuilt" ELSE "noop"
    /\ UNCHANGED <<tiles, access, sheet_call>>
    /\ IF dirty
       THEN \E l \in Instances(tiles, WIDTH * HEIGHT) :
               /\ map_buffer' = PadTiles(l)
               /\ instance_count' = Len(l)
       ELSE UNCHANGED <<map_buffer, instance_count>>
    /\ UNCHANGED <<configVars, loadVars, keyVars, reqVars, lockVars>>

\* update_tilemaps: apply_changes on every tilemap of the query, here the one tilemap
UpdateTilemaps == ApplyChanges

(***************************************************************************)
(* Operations on the rule table                                            *)
(***************************************************************************)
\* HashMap::insert on the rule table
TableInsert(table, k, v) ==
    IF k \in DOMAIN table THEN [table EXCEPT ![k] = v] ELSE table @@ (k :> v)

\* HashMap::remove on the rule table
TableRemove(table, k) == [c \in (DOMAIN table) \ {k} |-> table[c]]

\* the cycle of a direction button without the Some(false) step
next_val_two_state(condition) ==
    IF ~condition.some THEN Some(TRUE) ELSE None

\* the tri-state cycle of a direction button
next_val(condition) ==
    IF ~condition.some THEN Some(TRUE)
    ELSE IF condition.v THEN Some(FALSE) ELSE None

\* TilemapSpriteConfigEditor::run, a frame with "Delete" pressed
EditorDelete(sel) ==
    /\ edits < MaxEdits
    /\ selected_tile' = sel
    /\ sel \in DOMAIN orientations
    /\ orientations' = TableRemove(orientations, sel)
    /\ edited' = TRUE
    /\ edits' = edits + 1
    /\ UNCHANGED <<coordinates, fresh, lookup>>
    /\ UNCHANGED <<gridVars, loadVars, keyVars, reqVars, lockVars>>

\* TilemapSpriteConfigEditor::run, a frame with the button at (off_x, off_y) of
\* the 3 x 3 table pressed
EditorCycle(sel, off_x, off_y) ==
    /\ edits < MaxEdits
    /\ selected_tile' = sel
    /\ sel \in DOMAIN orientations
    /\ LET dir == orient(off_x, -off_y)
       IN /\ dir.some
          /\ LET o == orientations[sel]
                 i == requirement_index(dir.v)
             IN /\ i.some
                /\ orientations' =
                      TableInsert(orientations, sel, [o EXCEPT ![i.v] = next_val(o[i.v])])
    /\ edited' = TRUE
    /\ edits' = edits + 1
    /\ UNCHANGED <<coordinates, fresh, lookup>>
    /\ UNCHANGED <<gridVars, loadVars, keyVars, reqVars, lockVars>>

\* TilemapSpriteConfigEditor::run, a frame with "Add Entry" pressed
EditorAdd(sel) ==
    /\ edits < MaxEdits
    /\ selected_tile' = sel
    /\ sel \notin DOMAIN orientations
    /\ orientations' = TableInsert(orientations, sel, DefaultRequirements)
    /\ edited' = TRUE
    /\ edits' = edits + 1
    /\ UNCHANGED <<coordinates, fresh, lookup>>
    /\ UNCHANGED <<gridVars, loadVars, keyVars, reqVars, lockVars>>

\* TilemapSpriteConfigEditor::run, a frame with no button pressed
EditorIdle(sel) ==
    /\ selected_tile' = sel
    /\ UNCHANGED <<orientations, coordinates, edited, fresh, edits, lookup>>
    /\ UNCHANGED <<gridVars, loadVars, keyVars, reqVars, lockVars>>

\* TilemapSpriteConfig::sync_coordinates
SyncCoordinates ==
    /\ coordinates' = sync_coordinates(orientations, coordinates)
    /\ fresh' = (fresh /\ (coordinates = EmptyMap \/ ~edited))
    /\ edited' = FALSE
    /\ UNCHANGED <<orientations, selected_tile, edits, lookup>>
    /\ UNCHANGED <<gridVars, loadVars, keyVars, reqVars, lockVars>>

\* TilemapSpriteConfig::find_tile_index(o)
FindTileIndex(o) ==
    /\ \E r \in find_tile_index(coordinates, o) : lookup' = Some([o |-> o, result |-> r])
    /\ UNCHANGED <<orientations, coordinates, selected_tile, edited, fresh, edits>>
    /\ UNCHANGED <<gridVars, loadVars, keyVars, reqVars, lockVars>>

(***************************************************************************)
(* Operations on the rule file                                             *)
(***************************************************************************)
\* TilemapSpriteConfig::save
Save ==
    /\ ~panicked
    /\ \E doc \in to_string(orientations, grid_width, grid_height, tile_width, tile_height) :
          file' = Some(doc)
    /\ saved' = Some(orientations)
    /\ loaded' = None
    /\ UNCHANGED <<grid_width, grid_height, tile_width, tile_height, panicked>>
    /\ UNCHANGED <<gridVars, configVars, keyVars, reqVars, lockVars>>

\* TilemapSpriteConfig::new_or_load(asset, gw, gh); the config it returns
\* replaces the one in hand, a panic leaves none
NewOrLoad(gw, gh) ==
    /\ ~panicked
    /\ LET r == open_or_new(file, gw, gh)
       IN IF r.kind = "Ok"
          THEN /\ orientations' = r.v.orientations
               /\ coordinates' = sync_coordinates(r.v.orientations, r.v.coordinates)
               /\ grid_width' = r.v.grid_width
               /\ grid_height' = r.v.grid_height
               /\ tile_width' = r.v.tile_width
               /\ tile_height' = r.v.tile_height
               /\ edited' = FALSE
               /\ fresh' = TRUE
               /\ lookup' = None
               /\ UNCHANGED panicked
          ELSE /\ panicked' = TRUE
               /\ UNCHANGED <<orientations, coordinates, edited, fresh, lookup,
                              grid_width, grid_height, tile_width, tile_height>>
    /\ loaded' = Some([grid_width |-> gw, grid_height |-> gh, file |-> file])
    /\ UNCHANGED <<file, saved, selected_tile, edits>>
    /\ UNCHANGED <<gridVars, keyVars, reqVars, lockVars>>

\* another program writes the rule file
FileWrite(doc) ==
    /\ ~panicked
    /\ file' = Some(doc)
    /\ saved' = None
    /\ loaded' = None
    /\ UNCHANGED <<grid_width, grid_height, tile_width, tile_height, panicked>>
    /\ UNCHANGED <<gridVars, configVars, keyVars, reqVars, lockVars>>

\* another program removes the rule file
FileRemove ==
    /\ ~panicked
    /\ file.some
    /\ file' = None
    /\ saved' = None
    /\ loaded' = None
    /\ UNCHANGED <<grid_width, grid_height, tile_width, tile_height, panicked>>
    /\ UNCHANGED <<gridVars, configVars, keyVars, reqVars, lockVars>>

(***************************************************************************)
(* The editor's run against other holders of the shared rule table         *)
(***************************************************************************)
\* Mutex::lock by the editor's thread: it waits while another thread holds the
\* mutex, and locking a mutex the thread already holds never returns
EditorAcquire ==
    /\ mutex # "other"
    /\ IF mutex = "editor"
       THEN deadlocked' = TRUE /\ UNCHANGED mutex
       ELSE mutex' = "editor" /\ UNCHANGED deadlocked

\* the steps of run that begin while the thread can run
EditorAt(pc) == editor_pc = pc /\ ~panicked /\ ~deadlocked

\* run, the match guard of one cell's label: lock, contains_key, and the temporary
\* guard dropped at the end of the match guard
EditorLabel ==
    /\ EditorAt("idle")
    /\ EditorAcquire
    /\ editor_pc' = "label"
    /\ UNCHANGED <<editor_o, changed, other_pc, panicked>>
    /\ UNCHANGED <<gridVars, configVars, diskVars, keyVars, reqVars>>

EditorLabelled ==
    /\ EditorAt("label")
    /\ mutex' = "free"
    /\ editor_pc' = "idle"
    /\ UNCHANGED <<editor_o, changed, other_pc, deadlocked, panicked>>
    /\ UNCHANGED <<gridVars, configVars, diskVars, keyVars, reqVars>>

\* run, the selection from the drag widgets and `let mut sprite_config = lock()`
EditorLock(sel) ==
    /\ EditorAt("idle")
    /\ EditorAcquire
    /\ selected_tile' = sel
    /\ editor_pc' = "locked"
    /\ UNCHANGED <<orientations, coordinates, edited, fresh, edits, lookup>>
    /\ UNCHANGED <<editor_o, changed, other_pc, panicked>>
    /\ UNCHANGED <<gridVars, diskVars, keyVars, reqVars>>

\* contains_key on a temporary guard that is dropped after the test
EditorContainsThenUnlock ==
    /\ EditorAt("locked")
    /\ editor_pc' = IF selected_tile \in DOMAIN orientations THEN "present" ELSE "absent"
    /\ mutex' = "free"
    /\ UNCHANGED <<editor_o, changed, other_pc, deadlocked, panicked>>
    /\ UNCHANGED <<gridVars, configVars, diskVars, keyVars, reqVars>>

\* run, `if sprite_config.orientations.contains_key(&self.selected_tile)`
EditorContains ==
    /\ EditorAt("locked")
    /\ editor_pc' = IF selected_tile \in DOMAIN orientations THEN "present" ELSE "absent"
    /\ UNCHANGED <<mutex, editor_o, changed, other_pc, deadlocked, panicked>>
    /\ UNCHANGED <<gridVars, configVars, diskVars, keyVars, reqVars>>

\* run, "Delete" pressed: orientations.remove(&self.selected_tile)
EditorRemove ==
    /\ EditorAt("present")
    /\ edits < MaxEdits
    /\ orientations' = TableRemove(orientations, selected_tile)
    /\ edited' = TRUE
    /\ edits' = edits + 1
    /\ editor_pc' = "done"
    /\ UNCHANGED <<coordinates, selected_tile, fresh, lookup>>
    /\ UNCHANGED <<mutex, editor_o, changed, other_pc, deadlocked, panicked>>
    /\ UNCHANGED <<gridVars, diskVars, keyVars, reqVars>>

\* run, `let mut o = *sprite_config.orientations.get(&self.selected_tile).unwrap()`
EditorGet ==
    /\ EditorAt("present")
    /\ IF selected_tile \in DOMAIN orientations
       THEN /\ editor_o' = Some(orientations[selected_tile])
            /\ editor_pc' = "copied"
            /\ UNCHANGED panicked
       ELSE /\ panicked' = TRUE
            /\ UNCHANGED <<editor_o, editor_pc>>
    /\ UNCHANGED <<mutex, changed, other_pc, deadlocked>>
    /\ UNCHANGED <<gridVars, configVars, diskVars, keyVars, reqVars>>

\* run, the loops over the 3 x 3 buttons with the button at (off_x, off_y) pressed
EditorPress(off_x, off_y) ==
    /\ EditorAt("copied")
    /\ edits < MaxEdits
    /\ LET dir == orient(off_x, off_y)
       IN /\ dir.some
          /\ LET condition == get_requirement_mut(editor_o.v, dir.v)
             IN /\ condition # Err
                /\ editor_o' = Some([editor_o.v EXCEPT
                                        ![condition.v] = next_val(editor_o.v[condition.v])])
    /\ changed' = TRUE
    /\ editor_pc' = "cycled"
    /\ UNCHANGED <<mutex, other_pc, deadlocked, panicked>>
    /\ UNCHANGED <<gridVars, configVars, diskVars, keyVars, reqVars>>

\* run, the loops over the 3 x 3 buttons with none pressed
EditorNoPress ==
    /\ EditorAt("copied")
    /\ changed' = FALSE
    /\ editor_pc' = "cycled"
    /\ UNCHANGED <<mutex, editor_o, other_pc, deadlocked, panicked>>
    /\ UNCHANGED <<gridVars, configVars, diskVars, keyVars, reqVars>>

\* run, `if changed { sprite_config.orientations.insert(self.selected_tile, o) }`
EditorInsert ==
    /\ EditorAt("cycled")
    /\ IF changed
       THEN /\ orientations' = TableInsert(orientations, selected_tile, editor_o.v)
            /\ edited' = TRUE
            /\ edits' = edits + 1
       ELSE UNCHANGED <<orientations, edited, edits>>
    /\ editor_pc' = "written"
    /\ UNCHANGED <<coordinates, selected_tile, fresh, lookup>>
    /\ UNCHANGED <<mutex, editor_o, changed, other_pc, deadlocked, panicked>>
    /\ UNCHANGED <<gridVars, diskVars, keyVars, reqVars>>

\* run, `let reqs = sprite_config.orientations[&self.selected_tile]`
EditorIndex ==
    /\ EditorAt("written")
    /\ IF selected_tile \in DOMAIN orientations
       THEN editor_pc' = "done" /\ UNCHANGED panicked
       ELSE panicked' = TRUE /\ UNCHANGED editor_pc
    /\ UNCHANGED <<mutex, editor_o, changed, other_pc, deadlocked>>
    /\ UNCHANGED <<gridVars, configVars, diskVars, keyVars, reqVars>>

\* run, the else branch: "Add Entry" pressed or not
EditorAddEntry(pressed) ==
    /\ EditorAt("absent")
    /\ IF pressed
       THEN /\ edits < MaxEdits
            /\ orientations' = TableInsert(orientations, selected_tile, DefaultRequirements)
            /\ edited' = TRUE
            /\ edits' = edits + 1
       ELSE UNCHANGED <<orientations, edited, edits>>
    /\ editor_pc' = "done"
    /\ UNCHANGED <<coordinates, selected_tile, fresh, lookup>>
    /\ UNCHANGED <<mutex, editor_o, changed, other_pc, deadlocked, panicked>>
    /\ UNCHANGED <<gridVars, diskVars, keyVars, reqVars>>

\* run returns: sprite_config goes out of scope and the guard is dropped
EditorReturn ==
    /\ EditorAt("done")
    /\ mutex' = IF mutex = "editor" THEN "free" ELSE mutex
    /\ editor_pc' = "idle"
    /\ editor_o' = None
    /\ changed' = FALSE
    /\ UNCHANGED <<other_pc, deadlocked, panicked>>
    /\ UNCHANGED <<gridVars, configVars, diskVars, keyVars, reqVars>>

\* another holder of the Arc<Mutex<TilemapSpriteConfig>> locks it
OtherLock ==
    /\ other_pc = "out"
    /\ mutex = "free"
    /\ mutex' = "other"
    /\ other_pc' = "in"
    /\ UNCHANGED <<editor_pc, editor_o, changed, deadlocked, panicked>>
    /\ UNCHANGED <<gridVars, configVars, diskVars, keyVars, reqVars>>

\* the other holder removes a rule through its guard
OtherRemove(k) ==
    /\ other_pc = "in"
    /\ edits < MaxEdits
    /\ k \in DOMAIN orientations
    /\ orientations' = TableRemove(orientations, k)
    /\ edited' = TRUE
    /\ edits' = edits + 1
    /\ UNCHANGED <<coordinates, selected_tile, fresh, lookup>>
    /\ UNCHANGED lockVars
    /\ UNCHANGED <<gridVars, loadVars, keyVars, reqVars>>

\* the other holder drops its guard
OtherUnlock ==
    /\ other_pc = "in"
    /\ mutex' = "free"
    /\ other_pc' = "out"
    /\ UNCHANGED <<editor_pc, editor_o, changed, deadlocked, panicked>>
    /\ UNCHANGED <<gridVars, configVars, diskVars, keyVars, reqVars>>

(***************************************************************************)
(* Operations on map keys                                                  *)
(***************************************************************************)
\* one key is followed from its source to the outcome of its deserialization
NoKeyYet == ~coordinate.some /\ key_string = <<>> /\ ~key_result.some

\* <GridCoordinate as Serialize>::serialize on the coordinate c
Serialize(c) ==
    /\ NoKeyYet
    /\ coordinate' = Some(c)
    /\ key_string' = GridCoordinate_serialize(c)
    /\ key_result' = None
    /\ UNCHANGED <<gridVars, configVars, loadVars, reqVars, lockVars>>

\* a key string s met in a JSON object
ReadKey(s) ==
    /\ NoKeyYet
    /\ coordinate' = None
    /\ key_string' = s
    /\ key_result' = None
    /\ UNCHANGED <<gridVars, configVars, loadVars, reqVars, lockVars>>

\* <GridCoordinate as Deserialize>::deserialize on the key string in hand
Deserialize ==
    /\ ~key_result.some
    /\ key_result' = Some(visit_str(key_string))
    /\ UNCHANGED <<coordinate, key_string>>
    /\ UNCHANGED <<gridVars, configVars, loadVars, reqVars, lockVars>>

(***************************************************************************)
(* Operations on direction tokens and TileRequirements                     *)
(***************************************************************************)
\* one value is followed from its construction to one call on it
NoCallYet == ~orient_call.some /\ ~req_call.some

\* Orientation::orient(off_x, off_y)
Orient(off_x, off_y) ==
    /\ NoCallYet /\ ~from_orientation.some
    /\ orient_call' = Some([off_x |-> off_x, off_y |-> off_y, result |-> orient(off_x, off_y)])
    /\ UNCHANGED <<requirements, from_orientation, req_call>>
    /\ UNCHANGED <<gridVars, configVars, loadVars, keyVars, lockVars>>

\* TileRequirements::from(o)
From(o) ==
    /\ NoCallYet /\ ~from_orientation.some
    /\ requirements' = requirements_from(o)
    /\ from_orientation' = Some(o)
    /\ UNCHANGED <<orient_call, req_call>>
    /\ UNCHANGED <<gridVars, configVars, loadVars, keyVars, lockVars>>

\* TileRequirements::get_requirement(o)
GetRequirement(o) ==
    /\ NoCallYet
    /\ req_call' = Some([fn |-> "get_requirement", o |-> o, before |-> requirements,
                         result |-> get_requirement(requirements, o)])
    /\ UNCHANGED <<orient_call, requirements, from_orientation>>
    /\ UNCHANGED <<gridVars, configVars, loadVars, keyVars, lockVars>>

\* TileRequirements::get_requirement_mut(o), and the caller's write of the
\* next tri-state through the reference it got
GetRequirementMut(o) ==
    /\ NoCallYet
    /\ LET r == get_requirement_mut(requirements, o)
       IN IF r.kind = "Ok"
          THEN /\ req_call' = Some([fn |-> "get_requirement_mut", o |-> o,
                                    before |-> requirements, result |-> Ok(requirements[r.v])])
               /\ requirements' = [requirements EXCEPT ![r.v] = next_val(requirements[r.v])]
               /\ from_orientation' = None
          ELSE /\ req_call' = Some([fn |-> "get_requirement_mut", o |-> o,
                                    before |-> requirements, result |-> Err])
               /\ UNCHANGED <<requirements, from_orientation>>
    /\ UNCHANGED orient_call
    /\ UNCHANGED <<gridVars, configVars, loadVars, keyVars, lockVars>>

(***************************************************************************)
(* Specifications                                                          *)
(***************************************************************************)
Next ==
    \/ \E x \in 0..(WIDTH - 1), y \in 0..(HEIGHT - 1) : Toggle(x, y)
    \/ ApplyChanges

Spec == Init /\ [][Next]_vars

NextConfig ==
    \/ \E sel \in SheetCoords : EditorDelete(sel)
    \/ \E sel \in SheetCoords, off_x \in -1..1, off_y \in -1..1 : EditorCycle(sel, off_x, off_y)
    \/ \E sel \in SheetCoords : EditorAdd(sel)
    \/ \E sel \in SheetCoords : EditorIdle(sel)
    \/ SyncCoordinates
    \/ \E o \in ProbeOrientations : FindTileIndex(o)

SpecConfig == InitConfig /\ [][NextConfig]_vars

NextFile ==
    \/ Save
    \/ \E g \in LoadGeometries : NewOrLoad(g[1], g[2])
    \/ \E doc \in ForeignFiles : FileWrite(doc)
    \/ FileRemove

\* the rule file of a config built by new_or_load, saved and loaded again
SpecFile == InitConfig /\ [][NextFile]_vars

NextKeys ==
    \/ NoKeyYet /\ \E c \in KeyCoords : Serialize(c)
    \/ NoKeyYet /\ \E s \in KeyStrings : ReadKey(s)
    \/ Deserialize

\* map keys written by Serialize or met in a file, and read by visit_str
SpecKeys == Init /\ [][NextKeys]_vars

NextRequirements ==
    \/ NoCallYet /\ \E off_x \in -MaxOffset..MaxOffset, off_y \in -MaxOffset..MaxOffset :
                        Orient(off_x, off_y)
    \/ NoCallYet /\ \E o \in 0..all : From(o)
    \/ NoCallYet /\ \E o \in 0..all : GetRequirement(o)
    \/ NoCallYet /\ \E o \in 0..all : GetRequirementMut(o)

\* the direction tokens: orient, From<Orientation> and the per-direction getters
SpecRequirements == Init /\ [][NextRequirements]_vars

NextLock ==
    \/ EditorLabel
    \/ EditorLabelled
    \/ \E sel \in SheetCoords : EditorLock(sel)
    \/ EditorContains
    \/ EditorRemove
    \/ EditorGet
    \/ \E off_x \in -1..1, off_y \in -1..1 : EditorPress(off_x, off_y)
    \/ EditorNoPress
    \/ EditorInsert
    \/ EditorIndex
    \/ \E pressed \in BOOLEAN : EditorAddEntry(pressed)
    \/ EditorReturn
    \/ OtherLock
    \/ \E k \in SheetCoords : OtherRemove(k)
    \/ OtherUnlock

\* the editor's run, statement by statement, interleaved with another thread
\* that locks the rule table and removes rules
SpecLock == InitConfig /\ [][NextLock]_vars

NextLive ==
    \/ \E x \in 0..(WIDTH - 1), y \in 0..(HEIGHT - 1) : Toggle(x, y)
    \/ UpdateTilemaps

\* the tilemap toggled by the game while the schedule keeps running update_tilemaps
SpecLive == Init /\ [][NextLive]_vars /\ WF_vars(UpdateTilemaps)

NextSheet == NoSheetCallYet /\ \E o \in 0..all : GetSheetPos(o)

\* get_sheet_pos called with every orientation
SpecSheet == Init /\ [][NextSheet]_vars

NextAccess ==
    \/ \E x \in 0..WIDTH, y \in 0..HEIGHT : Toggle(x, y)
    \/ \E x \in 0..WIDTH, y \in 0..HEIGHT : Tile(x, y)

\* tile and toggle called with coordinates inside and just outside the grid
SpecAccess == Init /\ [][NextAccess]_vars

(***************************************************************************)
(* Vocabulary of the properties                                            *)
(***************************************************************************)
Cells == (0..(WIDTH - 1)) \X (0..(HEIGHT - 1))

InGrid(x, y) == x \in 0..(WIDTH - 1) /\ y \in 0..(HEIGHT - 1)

\* the 8 offsets that name a direction
NeighbourOffsets == {d \in (-1..1) \X (-1..1) : orient(d[1], d[2]).some}

FilledCells(t) == {c \in Cells : IsFilled(t[c[1]][c[2]])}

AllFilled(t) == FilledCells(t) = Cells

\* the position at the offset d of (x, y) is an in-grid Filled cell
FilledInGrid(t, x, y, d) ==
    InGrid(x + d[1], y + d[2]) /\ IsFilled(t[x + d[1]][y + d[2]])

\* the position at the offset d of (x, y) is an in-grid Empty cell
EmptyInGrid(t, x, y, d) ==
    InGrid(x + d[1], y + d[2]) /\ ~IsFilled(t[x + d[1]][y + d[2]])

\* the grid positions of the instances in the buffer
BufferGridPositions == {map_buffer[k].grid_pos : k \in 1..instance_count}

GridPos(c) == c[2] * GridStride + c[1]

\* the cell whose Empty/Filled state this step flips lies in the 3 x 3 block of c
FlipsNear(c) ==
    \E f \in Cells :
        /\ IsFilled(tiles[f[1]][f[2]]) # IsFilled(tiles'[f[1]][f[2]])
        /\ f[1] - c[1] \in -1..1
        /\ f[2] - c[2] \in -1..1

C3_ToggleSelfInverse ==
    \A c \in Cells :
        \A once \in {toggle(tiles, c[1], c[2])} : toggle(once, c[1], c[2]) = tiles

\* two toggles since the rebuild and the occupancy is the one that was rebuilt:
\* the same cell was toggled twice, in a grid with Empty and Filled cells
C3_Witness ==
    /\ pending = 2
    /\ instance_count \in 1..(WIDTH * HEIGHT - 1)
    /\ BufferGridPositions = {GridPos(c) : c \in FilledCells(tiles)}

(***************************************************************************)
(* C4: whenever dirty is false, the instance list and instance_count are   *)
(* the ones a rebuild produces from the grid as it is now.                 *)
(***************************************************************************)
C4_DirtyCoherence ==
    ~dirty =>
        /\ instance_count = Cardinality(FilledCells(tiles))
        /\ map_buffer \in {PadTiles(l) : l \in Instances(tiles, WIDTH * HEIGHT)}

\* a rebuild after toggles: clean, with some cells Empty and some Filled
C4_Witness ==
    /\ ~dirty
    /\ instance_count \in 1..(WIDTH * HEIGHT - 1)
    /\ Cardinality(FilledCells(tiles)) < WIDTH * HEIGHT

(***************************************************************************)
(* C5 (as stated): after apply_changes, instance_count is the number of    *)
(* Filled cells whose orientation find_tile_index resolves; the cells no   *)
(* rule matches are skipped.                                               *)
(***************************************************************************)
MatchedCells(t) ==
    {c \in FilledCells(t) : find_tile_index(coordinates, t[c[1]][c[2]].o) # {None}}

Orientations == 0..255

\* a rule matches a concrete orientation: every Some(b) equals the flag, None matches
Matches(r, o) == \A i \in DirIndices : r[i].some => (r[i].v = contains(o, DirOfIndex[i]))

\* the candidate set of a concrete orientation
Candidates(o) == IF o \in DOMAIN coordinates THEN coordinates[o] ELSE {}

\* the sheet coordinates whose current rule matches o
MatchingRules(o) == {c \in DOMAIN orientations : Matches(orientations[c], o)}

\* the wildcard directions of a rule
Wildcards(r) == {i \in DirIndices : ~r[i].some}

\* the index was built by sync_coordinates from the current table alone
BuiltFromScratch == fresh /\ ~edited

(***************************************************************************)
(* C6: after rule-table changes followed by sync_coordinates, the          *)
(* candidate set of every concrete orientation is exactly the set of sheet *)
(* coordinates whose current rule matches it.                              *)
(***************************************************************************)
C6_ResyncRemovesStaleness ==
    ~edited => \A o \in Orientations : Candidates(o) = MatchingRules(o)

(***************************************************************************)
(* C7: every edit made through the editor is followed by sync_coordinates  *)
(* before any later find_tile_index: no lookup is answered while an edit   *)
(* is not yet synced.                                                      *)
(***************************************************************************)
C7_SyncBeforeLookup == [][(lookup' # lookup) => ~edited]_vars

(***************************************************************************)
(* C8: after sync_coordinates on a table built from scratch, a rule at c   *)
(* with k wildcards makes c a candidate of exactly 2^k orientations, each  *)
(* agreeing with the rule on every direction that is no wildcard.          *)
(***************************************************************************)
C8_ExpansionCompleteness ==
    BuiltFromScratch =>
        \A c \in DOMAIN orientations :
            LET r == orientations[c]
                keys == {o \in Orientations : c \in Candidates(o)}
            IN /\ Cardinality(keys) = 2 ^ Cardinality(Wildcards(r))
               /\ \A o \in keys : \A i \in DirIndices \ Wildcards(r) :
                      contains(o, DirOfIndex[i]) <=> r[i].v

\* synced from scratch after an edit, with a rule that has both wildcards
\* and fixed directions
C8_Witness ==
    /\ BuiltFromScratch
    /\ edits > 0
    /\ coordinates # EmptyMap
    /\ \E c \in DOMAIN orientations :
          Cardinality(Wildcards(orientations[c])) \in 1..7

(***************************************************************************)
(* C9: after sync_coordinates on a table built from scratch,               *)
(* find_tile_index(o) returns a coordinate if and only if some rule        *)
(* matches o, every coordinate it can return has a rule matching o, and an *)
(* orientation no rule matches yields no result.                           *)
(***************************************************************************)
C9_LookupIffRuleMatches ==
    BuiltFromScratch =>
        \A o \in Orientations :
            LET results == find_tile_index(coordinates, o)
            IN /\ (\E r \in results : r.some) <=> (MatchingRules(o) # {})
               /\ \A r \in results : r.some => r.v \in MatchingRules(o)
               /\ (MatchingRules(o) = {}) => results = {None}
               /\ (MatchingRules(o) # {}) => None \notin results

\* a scratch-built index of a table with rules, some orientation matched and
\* some orientation matched by no rule, and a lookup that found a coordinate
C9_Witness ==
    /\ BuiltFromScratch
    /\ DOMAIN orientations # {}
    /\ \E o \in Orientations : MatchingRules(o) = {}
    /\ lookup.some
    /\ lookup.v.result.some
    /\ lookup.v.result.v \in MatchingRules(lookup.v.o)

C11_PersistenceRoundTrip ==
    (saved.some /\ loaded.some) =>
        LET index == sync_coordinates(saved.v, EmptyMap)
        IN /\ ~panicked
           /\ orientations = saved.v
           /\ DOMAIN coordinates = DOMAIN index
           /\ \A o \in DOMAIN index : coordinates[o] = index[o]
           /\ "coordinates" \notin DOMAIN file.v

\* a table of two rules, one of them with a wildcard, was saved and loaded
C11_Witness ==
    /\ saved.some /\ loaded.some
    /\ Cardinality(DOMAIN saved.v) = 2
    /\ \E c \in DOMAIN saved.v : Wildcards(saved.v[c]) # {}
    /\ \E c \in DOMAIN saved.v : Wildcards(saved.v[c]) = {}
    /\ coordinates # EmptyMap

(***************************************************************************)
(* C12: every GridCoordinate (x, y) serializes to the key string "x:y",     *)
(* decimal x, one colon, decimal y, and deserializing that string gives     *)
(* back (x, y).                                                             *)
(***************************************************************************)
\* the decimal numeral of n: digits only, no leading zero, of value n
IsDecimalOf(ds, n) ==
    /\ ds # <<>>
    /\ \A i \in 1..Len(ds) : IsDigit(ds[i])
    /\ (Len(ds) > 1 => ds[1] # "0")
    /\ DigitsValue(ds) = n

C12_KeyRoundTrip ==
    coordinate.some =>
        /\ \E i \in 1..Len(key_string) :
              /\ key_string[i] = ":"
              /\ IsDecimalOf(SubSeq(key_string, 1, i - 1), coordinate.v[1])
              /\ IsDecimalOf(SubSeq(key_string, i + 1, Len(key_string)), coordinate.v[2])
        /\ (key_result.some => key_result.v = Ok(coordinate.v))

\* a coordinate of two digits on each axis, x # y, was serialized and read back
C12_Witness ==
    /\ coordinate.some /\ key_result.some
    /\ coordinate.v[1] >= 10 /\ coordinate.v[2] >= 10
    /\ coordinate.v[1] # coordinate.v[2]

(***************************************************************************)
(* Vocabulary of the properties of the rule file                           *)
(***************************************************************************)
\* the last new_or_load found a file
LoadedFromFile == loaded.some /\ loaded.v.file.some

\* the last new_or_load found no file
LoadedWithoutFile == loaded.some /\ ~loaded.v.file.some

\* the config in hand is new(gw, gh) of the arguments of the last new_or_load
IsNewConfig ==
    /\ orientations = <<>>
    /\ grid_width = loaded.v.grid_width
    /\ grid_height = loaded.v.grid_height
    /\ tile_width = DefaultTileWidth
    /\ tile_height = DefaultTileHeight

(***************************************************************************)
(* C13: new_or_load on a rule file that exists but cannot be parsed does    *)
(* not fail: it returns a fresh config with an empty rule table and the     *)
(* grid_width and grid_height of the call, as for a missing file.           *)
(***************************************************************************)
C13_ParseFailureFallsBack ==
    (LoadedFromFile /\ from_reader(loaded.v.file.v).kind # "Ok") =>
        /\ ~panicked
        /\ IsNewConfig

(***************************************************************************)
(* C14: new_or_load on a path with no file returns new(grid_width,          *)
(* grid_height): an empty rule table, the geometry of the call, the default *)
(* tile size, and an empty coordinate index, so that find_tile_index finds  *)
(* no match for any orientation.                                            *)
(***************************************************************************)
C14_MissingFileGivesNew ==
    LoadedWithoutFile =>
        /\ ~panicked
        /\ IsNewConfig
        /\ coordinates = EmptyMap
        /\ \A o \in Orientations : find_tile_index(coordinates, o) = {None}

\* new_or_load found no file and was called with a geometry other than the
\* one of the config in hand before
C14_Witness ==
    /\ LoadedWithoutFile
    /\ loaded.v.grid_width = GridWidth + 1
    /\ grid_width = GridWidth + 1
    /\ grid_height = GridHeight + 1

(***************************************************************************)
(* C15: deserializing a GridCoordinate from a string that is not exactly    *)
(* two non-negative decimal integers separated by a single colon returns a  *)
(* deserialization error; no such string is accepted as a coordinate.       *)
(***************************************************************************)
\* digits only, at least one
IsDecimal(ds) == ds # <<>> /\ \A i \in 1..Len(ds) : IsDigit(ds[i])

\* two decimal integers separated by the only colon of the string
WellFormedKey(s) ==
    /\ Cardinality({i \in 1..Len(s) : s[i] = ":"}) = 1
    /\ LET i == CHOOSE j \in 1..Len(s) : s[j] = ":"
       IN IsDecimal(SubSeq(s, 1, i - 1)) /\ IsDecimal(SubSeq(s, i + 1, Len(s)))

C15_MalformedKeyIsError ==
    (key_result.some /\ ~WellFormedKey(key_string)) => key_result.v = Err

(***************************************************************************)
(* Vocabulary of the properties of direction tokens                        *)
(***************************************************************************)
\* the 8 offsets to a neighbouring cell
UnitOffsets == ((-1..1) \X (-1..1)) \ {<<0, 0>>}

\* the entry of dirs the accessor of direction d reads
EntryOf(r, d) == r[CHOOSE i \in DirIndices : DirOfIndex[i] = d]

(***************************************************************************)
(* C16: orient maps the 8 unit offsets other than (0,0) to 8 pairwise       *)
(* distinct single directions, and returns no direction for (0,0) and for   *)
(* every offset with |dx| > 1 or |dy| > 1.                                  *)
(***************************************************************************)
C16_OrientOnUnitOffsets ==
    orient_call.some =>
        LET d == <<orient_call.v.off_x, orient_call.v.off_y>>
            r == orient_call.v.result
        IN IF d \in UnitOffsets
           THEN /\ r.some
                /\ r.v \in Directions
                /\ \A e \in UnitOffsets \ {d} : orient(e[1], e[2]) # r
           ELSE r = None

\* orient was called on a diagonal offset and gave a direction
C16_Witness ==
    /\ orient_call.some
    /\ orient_call.v.off_x = 1 /\ orient_call.v.off_y = -1
    /\ orient_call.v.result.some

(***************************************************************************)
(* C17: for every orientation o and every direction d, from(o) has no None  *)
(* entry and from(o).get_requirement(d) is Some(o.contains(d)): from writes *)
(* the positions of the array that the per-direction getters read.          *)
(***************************************************************************)
C17_FromIsIndexConsistent ==
    from_orientation.some =>
        /\ \A i \in DirIndices : requirements[i].some
        /\ \A d \in Directions :
              get_requirement(requirements, d)
                  = Some(Some(d \in BitSet(from_orientation.v)))
        /\ (req_call.some /\ req_call.v.fn = "get_requirement" /\ req_call.v.o \in Directions)
              => req_call.v.result = Some(Some(req_call.v.o \in BitSet(from_orientation.v)))

\* get_requirement(E) was called on from(o) for an o with E set and S clear
C17_Witness ==
    /\ from_orientation.some
    /\ E \in BitSet(from_orientation.v) /\ S \notin BitSet(from_orientation.v)
    /\ req_call.some /\ req_call.v.fn = "get_requirement" /\ req_call.v.o = E
    /\ req_call.v.result = Some(Some(TRUE))

(***************************************************************************)
(* C18: for a token that is not one of the 8 single directions,             *)
(* get_requirement_mut returns Err, get_requirement returns None and the    *)
(* TileRequirements value is left unchanged; for each of the 8 single       *)
(* directions both return the entry of that direction.                      *)
(***************************************************************************)
C18_InvalidDirectionToken ==
    req_call.some =>
        LET c == req_call.v
        IN IF c.o \in Directions
           THEN c.result = IF c.fn = "get_requirement"
                           THEN Some(EntryOf(c.before, c.o))
                           ELSE Ok(EntryOf(c.before, c.o))
           ELSE /\ c.result = IF c.fn = "get_requirement" THEN None ELSE Err
                /\ requirements = c.before

\* get_requirement_mut was called with a token of two directions on a value
\* with concrete entries
C18_Witness ==
    /\ req_call.some
    /\ req_call.v.fn = "get_requirement_mut"
    /\ req_call.v.o = N + E
    /\ req_call.v.result = Err
    /\ \A i \in DirIndices : requirements[i].some

(***************************************************************************)
(* C19: apply_changes called with dirty false leaves the grid, the instance *)
(* list, instance_count and dirty unchanged; called with dirty true it ends *)
(* with dirty false.                                                        *)
(***************************************************************************)
C19_ApplyIsNoOpWhenClean ==
    [][(applied' # "none") =>
            IF dirty
            THEN ~dirty'
            ELSE UNCHANGED <<tiles, map_buffer, instance_count, dirty>>]_vars

\* apply_changes was called on a grid that was not dirty, with Empty cells
\* and instances in the list
C19_Witness ==
    /\ applied = "noop"
    /\ ~dirty
    /\ instance_count \in 1..(WIDTH * HEIGHT - 1)

(***************************************************************************)
(* C20: after apply_changes the first instance_count entries of the         *)
(* instance list are exactly the Filled cells, each once, in the order of   *)
(* the loops (x outer, y inner), with grid_pos = y * 16 + x.                *)
(***************************************************************************)
\* the cell a grid_pos stands for
CellOfGridPos(p) == <<p % GridStride, p \div GridStride>>

\* c comes before d in the order x outer, y inner
VisitedBefore(c, d) == c[1] < d[1] \/ (c[1] = d[1] /\ c[2] < d[2])

C20_InstanceListDenseAndOrdered ==
    (applied # "none") =>
        /\ instance_count = Cardinality(FilledCells(tiles))
        /\ {CellOfGridPos(map_buffer[k].grid_pos) : k \in 1..instance_count}
              = FilledCells(tiles)
        /\ \A k \in 1..instance_count :
              map_buffer[k].grid_pos = GridPos(CellOfGridPos(map_buffer[k].grid_pos))
        /\ \A k \in 1..(instance_count - 1) :
              VisitedBefore(CellOfGridPos(map_buffer[k].grid_pos),
                            CellOfGridPos(map_buffer[k + 1].grid_pos))

\* a rebuild of a grid where (0,0) is Empty and (0,1) and (1,0) are Filled:
\* the two loop orders would list these two cells in different orders
C20_Witness ==
    /\ applied = "rebuilt"
    /\ ~IsFilled(tiles[0][0])
    /\ IsFilled(tiles[0][1]) /\ IsFilled(tiles[1][0])
    /\ instance_count = Cardinality(FilledCells(tiles))

(***************************************************************************)
(* C21: a cell with all 8 neighbours inside the grid that is Filled while   *)
(* all 8 neighbours are Empty stores the orientation NONE, after the toggle *)
(* that filled it and after apply_changes.                                  *)
(***************************************************************************)
\* the cells whose 8 neighbours are all inside the grid
InteriorCells == {c \in Cells : \A d \in NeighbourOffsets : InGrid(c[1] + d[1], c[2] + d[2])}

\* all 8 neighbours of the interior cell c are Empty
Isolated(t, c) == \A d \in NeighbourOffsets : EmptyInGrid(t, c[1], c[2], d)

C21_IsolatedCellIsNone ==
    \A c \in InteriorCells :
        (IsFilled(tiles[c[1]][c[2]]) /\ Isolated(tiles, c)) => tiles[c[1]][c[2]] = Filled(NONE)

\* the last rebuild listed no instance (every cell was Empty) and the one
\* toggle since then filled the interior cell (1,1)
C21_Witness ==
    /\ pending = 1
    /\ instance_count = 0
    /\ applied = "none"
    /\ FilledCells(tiles) = {<<1, 1>>}
    /\ <<1, 1>> \in InteriorCells

(***************************************************************************)
(* C22: tile(x, y) and toggle(x, y) with x >= WIDTH or y >= HEIGHT panic   *)
(* instead of returning a value, and the panic comes before any cell, the  *)
(* dirty flag or instance_count is modified; calls inside the grid do not  *)
(* panic.                                                                  *)
(***************************************************************************)
OutOfBounds(x, y) == x >= WIDTH \/ y >= HEIGHT

C22_OutOfBoundsFailsFast ==
    [][\A x \in 0..WIDTH, y \in 0..HEIGHT :
          /\ (Toggle(x, y) \/ Tile(x, y)) /\ OutOfBounds(x, y) =>
                 /\ panicked'
                 /\ access' = Some([fn |-> access'.v.fn, x |-> x, y |-> y, result |-> Panic])
                 /\ UNCHANGED <<tiles, dirty, instance_count, map_buffer>>
          /\ (Toggle(x, y) \/ Tile(x, y)) /\ ~OutOfBounds(x, y) => ~panicked'
          /\ Tile(x, y) /\ ~OutOfBounds(x, y) => access'.v.result = Ok(tiles[x][y])]_vars

C22_Witness ==
    /\ panicked
    /\ pending = MaxPending
    /\ access = Some([fn |-> "toggle", x |-> WIDTH, y |-> 0, result |-> Panic])
    /\ FilledCells(tiles) # Cells

(***************************************************************************)
(* C23: for every reachable grid and every cell (x, y), toggle(x, y) (the  *)
(* 3x3 block recomputed from occupancy) leaves the same grid as flipping   *)
(* the occupancy of (x, y), computing its own orientation from its         *)
(* neighbours, and applying add_orientation (cell now Filled) or           *)
(* remove_orientation (cell now Empty) of the single opposite-direction    *)
(* flag to each of its neighbours.                                         *)
(***************************************************************************)
\* add or remove, on the neighbours ToggleOffsets[i..] of (x, y), the flag that points back
RECURSIVE MaintainNeighbours(_, _, _, _)
MaintainNeighbours(t, x, y, i) ==
    IF i > Len(ToggleOffsets) THEN t
    ELSE LET d == ToggleOffsets[i]
             back == orient(-d[1], -d[2])
             next == IF ~back.some THEN t
                     ELSE IF IsFilled(t[x][y])
                          THEN add_orientation(t, x, y, d[1], d[2], back.v).tiles
                          ELSE remove_orientation(t, x, y, d[1], d[2], back.v)
         IN \* the grid after this neighbour is a value before the next is visited
            CHOOSE r \in {MaintainNeighbours(n, x, y, i + 1) : n \in {next}} : TRUE

toggle_incremental(t, x, y) ==
    LET flipped == [t EXCEPT ![x][y] =
                        IF IsFilled(t[x][y]) THEN TileNone ELSE Filled(NONE)]
        own == update_orientation_offset(flipped, x, y, 0, 0)
    IN MaintainNeighbours(own, x, y, 1)

C23_IncrementalEqualsRederived ==
    \A c \in Cells :
        \A full \in {toggle(tiles, c[1], c[2])} :
            toggle_incremental(tiles, c[1], c[2]) = full

\* a grid of mixed occupancy, two toggles after a rebuild, where toggling the centre
\* adds a flag to some neighbours and toggling a corner removes one from others
C23_Witness ==
    /\ pending = 2
    /\ applied = "none"
    /\ instance_count \in 2..(WIDTH * HEIGHT - 2)
    /\ ~IsFilled(tiles[1][1])
    /\ IsFilled(tiles[0][0])
    /\ \E c \in FilledCells(tiles) :
          toggle(tiles, 1, 1)[c[1]][c[2]] # tiles[c[1]][c[2]]
    /\ \E c \in FilledCells(tiles) \ {<<0, 0>>} :
          toggle(tiles, 0, 0)[c[1]][c[2]] # tiles[c[1]][c[2]]

(***************************************************************************)
(* C24: in every state reached from the constructed grid by toggles (and   *)
(* rebuilds), dirty or not, each Filled cell has the flag of direction d   *)
(* set iff the position at d's offset is not an in-grid Empty cell; for a  *)
(* cell whose 8 neighbours are all in-grid the orientation is exactly the  *)
(* set of directions of its Filled neighbours.                             *)
(***************************************************************************)
FilledNeighbourFlags(t, c) ==
    FromBits({orient(d[1], d[2]).v : d \in {e \in NeighbourOffsets : FilledInGrid(t, c[1], c[2], e)}})

C24_OrientationInvariant ==
    \A c \in FilledCells(tiles) :
        /\ \A d \in NeighbourOffsets :
              contains(tiles[c[1]][c[2]].o, orient(d[1], d[2]).v)
                  <=> ~EmptyInGrid(tiles, c[1], c[2], d)
        /\ c \in InteriorCells => tiles[c[1]][c[2]].o = FilledNeighbourFlags(tiles, c)

\* toggles not yet rebuilt: the interior cell has lost some flags and kept others,
\* and a border cell next to an Empty cell keeps its off-grid flags
C24_Witness ==
    /\ dirty
    /\ pending = MaxPending
    /\ instance_count = WIDTH * HEIGHT
    /\ IsFilled(tiles[1][1])
    /\ tiles[1][1].o \notin {NONE, all}
    /\ ~IsFilled(tiles[0][0])
    /\ IsFilled(tiles[0][1])
    /\ contains(tiles[0][1].o, W) /\ ~contains(tiles[0][1].o, S)

(***************************************************************************)
(* C25: toggle(x, y) changes the Empty/Filled state of cell (x, y) only;   *)
(* every other cell keeps its Empty/Filled state, Empty cells of the 3x3   *)
(* block stay Empty, and every cell outside the 3x3 block centred on       *)
(* (x, y) is left unchanged, stored orientation included.                  *)
(***************************************************************************)
InBlock(c, x, y) == c[1] - x \in -1..1 /\ c[2] - y \in -1..1

C25_ToggleFrame ==
    [][\A x \in 0..(WIDTH - 1), y \in 0..(HEIGHT - 1) :
          Toggle(x, y) =>
              /\ IsFilled(tiles'[x][y]) # IsFilled(tiles[x][y])
              /\ \A c \in Cells \ {<<x, y>>} :
                    /\ IsFilled(tiles'[c[1]][c[2]]) = IsFilled(tiles[c[1]][c[2]])
                    /\ ~IsFilled(tiles[c[1]][c[2]]) => tiles'[c[1]][c[2]] = TileNone
                    /\ ~InBlock(c, x, y) => tiles'[c[1]][c[2]] = tiles[c[1]][c[2]]]_vars

\* one toggle of the corner (0, 0) since the rebuild: the block holds an Empty cell,
\* and the cells outside the block include an Empty cell and a Filled cell that has
\* lost a flag
C25_Witness ==
    /\ pending = 1
    /\ applied = "none"
    /\ instance_count \in 1..(WIDTH * HEIGHT - 1)
    /\ GridPos(<<0, 0>>) \in BufferGridPositions
    /\ ~IsFilled(tiles[0][0])
    /\ ~IsFilled(tiles[1][1])
    /\ ~IsFilled(tiles[2][2])
    /\ IsFilled(tiles[2][1]) /\ tiles[2][1].o # all
    /\ BufferGridPositions \ {GridPos(<<0, 0>>)} = {GridPos(c) : c \in FilledCells(tiles)}

(***************************************************************************)
(* C26: get_sheet_pos ignores the diagonal flags: orientations that agree  *)
(* on N, E, S and W have the same set of possible sheet positions; every   *)
(* result is x + 16 * y with 0 <= x <= 5 and 0 <= y <= 5, and an           *)
(* orientation with all four cardinal flags gets 1 <= x <= 4 and           *)
(* 1 <= y <= 4.                                                            *)
(***************************************************************************)
Cardinals == FromBits({N, E, S, W})

C26_SheetPosIgnoresDiagonals ==
    sheet_call.some =>
        LET o == sheet_call.v.o
            x == sheet_call.v.result % SheetStride
            y == sheet_call.v.result \div SheetStride
        IN /\ x \in 0..5 /\ y \in 0..5
           /\ contains(o, Cardinals) => x \in 1..4 /\ y \in 1..4
           /\ \A o2 \in 0..all :
                 BitAnd(o2, Cardinals) = BitAnd(o, Cardinals) =>
                     get_sheet_pos(o2) = get_sheet_pos(o)

\* the call for a top edge with only some diagonals set returned a position of row 0
C26_Witness ==
    /\ sheet_call.some
    /\ sheet_call.v.o = FromBits({E, S, W, SE})
    /\ sheet_call.v.result = 3

(***************************************************************************)
(* C27: sync_coordinates is idempotent: with the rule table unchanged, a   *)
(* second call leaves the index (keys and candidate sets) identical to     *)
(* what it was after the first call.                                       *)
(***************************************************************************)
C27_SyncIdempotent ==
    /\ \A first \in {sync_coordinates(orientations, coordinates)} :
          sync_coordinates(orientations, first) = first
    /\ ~edited => sync_coordinates(orientations, coordinates) = coordinates

\* the index was synced after two edits: it holds entries of an older table and
\* an orientation with several candidates, and the table has a wildcard rule
C27_Witness ==
    /\ ~edited
    /\ edits = MaxEdits
    /\ ~fresh
    /\ \E o \in DOMAIN coordinates : Cardinality(coordinates[o]) >= 2
    /\ \E k \in DOMAIN orientations : \E i \in DirIndices : ~orientations[k][i].some

(***************************************************************************)
(* C28: pressing the button of direction d on the selected rule advances   *)
(* that direction's requirement None -> Some(true) -> Some(false) -> None, *)
(* so three presses restore the original value; the press changes only     *)
(* direction d of the selected rule, and a frame with no press leaves the  *)
(* rule table unchanged.                                                   *)
(***************************************************************************)
Advanced(v) ==
    CASE v = None -> Some(TRUE)
      [] v = Some(TRUE) -> Some(FALSE)
      [] v = Some(FALSE) -> None

C28_TriStateCycle ==
    [][/\ \A sel \in SheetCoords, off_x \in -1..1, off_y \in -1..1 :
             EditorCycle(sel, off_x, off_y) =>
                 LET d == orient(off_x, -off_y).v
                     old == get_requirement(orientations[sel], d).v
                     new == get_requirement(orientations'[sel], d).v
                 IN /\ new = Advanced(old)
                    /\ next_val(next_val(new)) = old
                    /\ \A e \in Directions \ {d} :
                          get_requirement(orientations'[sel], e)
                              = get_requirement(orientations[sel], e)
                    /\ DOMAIN orientations' = DOMAIN orientations
                    /\ \A k \in DOMAIN orientations \ {sel} :
                          orientations'[k] = orientations[k]
       /\ \A sel \in SheetCoords : EditorIdle(sel) => orientations' = orientations]_vars

\* two presses of the N button on a rule that started with every direction None
C28_Witness ==
    /\ edits = MaxEdits
    /\ edited
    /\ selected_tile = <<0, 0>>
    /\ DOMAIN orientations = {<<0, 0>>}
    /\ orientations[<<0, 0>>] = [DefaultRequirements EXCEPT ![requirement_index(N).v] = Some(FALSE)]

(***************************************************************************)
(* C29: if update_tilemaps keeps being run, a tilemap whose dirty flag is  *)
(* set eventually reaches dirty = false with instance_count equal to the   *)
(* number of its Filled cells, and one run of update_tilemaps leaves the   *)
(* tilemap with dirty = false.                                             *)
(***************************************************************************)
Rebuilt == ~dirty /\ instance_count = Cardinality(FilledCells(tiles))

C29_DirtyEventuallyRebuilt ==
    /\ dirty ~> Rebuilt
    /\ [][UpdateTilemaps => ~dirty']_vars

\* update_tilemaps has rebuilt a grid that toggles had left dirty with Empty cells
C29_Witness ==
    /\ applied = "rebuilt"
    /\ Rebuilt
    /\ instance_count \in 1..(WIDTH * HEIGHT - 1)

(***************************************************************************)
(* C30: within one run of the editor the contains_key test on the selected *)
(* tile, the get(..).unwrap(), the insert of the modified rule and the     *)
(* later index read all happen under one mutex guard, and the mutex is     *)
(* never locked again while held: under any interleaving with another      *)
(* holder of the rule table the unwrap and the index do not fail, no rule  *)
(* vanishes between the test and the reads, and the run does not deadlock  *)
(* on its own lock.                                                        *)
(***************************************************************************)
UnderGuard == {"locked", "present", "absent", "copied", "cycled", "written", "done"}

RuleNeeded == {"present", "copied", "cycled", "written"}

C30_CheckThenActAtomic ==
    /\ ~panicked
    /\ ~deadlocked
    /\ editor_pc \in UnderGuard \cup {"label"} <=> mutex = "editor"
    /\ editor_pc \in RuleNeeded => selected_tile \in DOMAIN orientations
    /\ mutex = "other" <=> other_pc = "in"

\* the editor, holding the guard, is between the insert of a changed rule and its
\* index read; the selected rule is the only one left and the other holder is
\* outside its critical section, unable to lock
C30_Witness ==
    /\ editor_pc = "written"
    /\ changed
    /\ mutex = "editor"
    /\ other_pc = "out"
    /\ edits = MaxEdits
    /\ DOMAIN orientations = {selected_tile}
    /\ orientations[selected_tile] = editor_o.v

====
